---- MODULE Spec2Model ----
(***************************************************************************)
(* Model of the emoji search plugin (src/__init__.py): the two sandbox      *)
(* methods search_emoji and get_emoji_image, the helpers they call          *)
(* (fetch_emoji_images, format_result) and the upstream HTTP service they   *)
(* talk to.                                                                 *)
(*                                                                          *)
(* Text is a sequence of chunks (strings); an f-string is the concatenation *)
(* of its literal chunks and of the rendering of its arguments.  The        *)
(* literals of the source are Chinese; the module writes them in English    *)
(* and gives the original beside each.                                      *)
(***************************************************************************)
EXTENDS Naturals, Sequences, FiniteSets

VARIABLES config, pc, op, arg, request, upstream, trace, result

vars == <<config, pc, op, arg, request, upstream, trace, result>>

----------------------------------------------------------------------------
(* Bounds of the model *)

\* Number of invocations that may be in flight together (SpecConc).
NumCalls == 2
\* Longest res list the upstream answers with.
MaxRes == 2
\* Longest keyword drawn character by character.
MaxKeywordLen == 2

(* Program constants *)

\* data["code"] != 200
SuccessCode == 200

----------------------------------------------------------------------------
(* Text *)

RECURSIVE Concat(_)
\* The concatenation of a sequence of texts.
Concat(ts) == IF ts = <<>> THEN <<>> ELSE Head(ts) \o Concat(Tail(ts))

Digit(d) ==
  CASE d = 0 -> "0" [] d = 1 -> "1" [] d = 2 -> "2" [] d = 3 -> "3"
    [] d = 4 -> "4" [] d = 5 -> "5" [] d = 6 -> "6" [] d = 7 -> "7"
    [] d = 8 -> "8" [] OTHER -> "9"

RECURSIVE DecStr(_)
\* str(n) of a natural number: its decimal digits.
DecStr(n) == IF n < 10 THEN <<Digit(n)>> ELSE DecStr(n \div 10) \o <<Digit(n % 10)>>

IsSpace(ch) == ch = " "

RECURSIVE LStrip(_)
LStrip(s) == IF s # <<>> /\ IsSpace(Head(s)) THEN LStrip(Tail(s)) ELSE s

RECURSIVE RStrip(_)
RStrip(s) ==
  IF s # <<>> /\ IsSpace(s[Len(s)]) THEN RStrip(SubSeq(s, 1, Len(s) - 1)) ELSE s

\* str.strip(): leading and trailing whitespace removed.
Strip(s) == RStrip(LStrip(s))

\* urllib.parse.quote on the characters the model draws: a letter is kept,
\* a space becomes %20.
Quote(s) == [i \in 1..Len(s) |-> IF IsSpace(s[i]) THEN "%20" ELSE s[i]]

----------------------------------------------------------------------------
(* JSON values: t is the type, n the number of a "num", items the elements  *)
(* of a "list", the characters of a "str" or the keys of an "obj".          *)

JVal(t, n, items) == [t |-> t, n |-> n, items |-> items]

Absent == JVal("absent", 0, <<>>)
JNull == JVal("null", 0, <<>>)
JNum(n) == JVal("num", n, <<>>)
JStr(s) == JVal("str", 0, s)
JList(s) == JVal("list", 0, s)
JObj(keys) == JVal("obj", 0, keys)

\* bool(v): the truth value `if not res_list` tests.
Truthy(v) ==
  CASE v.t = "null" -> FALSE
    [] v.t = "num" -> v.n # 0
    [] OTHER -> v.items # <<>>

\* str(v) as an f-string renders it, for the values the model renders: a
\* string is its characters, a number its digits, null is None.
StrOf(v) ==
  CASE v.t = "str" -> v.items
    [] v.t = "num" -> DecStr(v.n)
    [] OTHER -> <<"None">>

\* v == 200 in Python: only the number 200 equals 200.
EqualsSuccess(v) == v.t = "num" /\ v.n = SuccessCode

----------------------------------------------------------------------------
(* Exceptions: the classes of httpx and of Python the handlers name, and    *)
(* the ones the try bodies can raise.                                       *)

Exc(type, text, status) == [type |-> type, text |-> text, status |-> status]

NoExc == Exc("none", <<>>, 0)

\* The base class of each exception class.
ParentClass(cls) ==
  CASE cls = "ConnectError" -> "TransportError"
    [] cls = "ReadTimeout" -> "TimeoutException"
    [] cls = "TimeoutException" -> "TransportError"
    [] cls = "TransportError" -> "RequestError"
    [] cls = "RequestError" -> "HTTPError"
    [] cls = "HTTPStatusError" -> "HTTPError"
    [] cls = "HTTPError" -> "Exception"
    [] cls = "JSONDecodeError" -> "ValueError"
    [] cls = "ValueError" -> "Exception"
    [] cls = "KeyError" -> "LookupError"
    [] cls = "LookupError" -> "Exception"
    [] cls = "TypeError" -> "Exception"
    [] OTHER -> "BaseException"

RECURSIVE IsSubclass(_, _)
\* issubclass(cls, base), which an except clause tests.
IsSubclass(cls, base) ==
  \/ cls = base
  \/ cls # "BaseException" /\ IsSubclass(ParentClass(cls), base)

\* KeyError(key): str() of a KeyError is the repr of its key.
KeyErrorOf(key) == Exc("KeyError", <<"'", key, "'">>, 0)

----------------------------------------------------------------------------
(* Configuration: EmojiSearchConfig with its defaults; the host may set an  *)
(* extra keyword.                                                           *)

EmojiSearchConfig(extra) ==
  [API_URL |-> "https://cn.apihz.cn/api/img/apihzbqbbaidu.php",
   USER_ID |-> "88888888",
   USER_KEY |-> "88888888",
   EXTRA_KEYWORD |-> extra,
   TIMEOUT |-> 10]

Configs == {EmojiSearchConfig(<<>>), EmojiSearchConfig(<<"x">>)}

----------------------------------------------------------------------------
(* The upstream service: what one HTTP exchange can come to.                *)

Payload(shape, code, msg, res, count, maxpage, page) ==
  [shape |-> shape, code |-> code, msg |-> msg, res |-> res,
   count |-> count, maxpage |-> maxpage, page |-> page]

\* A decoded body that is no JSON object: an array, a string, a number.
NonObject(shape) == Payload(shape, Absent, Absent, Absent, Absent, Absent, Absent)

NoPayload == NonObject("none")

\* kind "error": the exchange raises exc (no response).  kind "response":
\* a response with a status and a body; decodable says whether the body is
\* JSON, payload what it decodes to, content its bytes.
Upstream(kind, exc, status, decodable, payload, content) ==
  [kind |-> kind, exc |-> exc, status |-> status, decodable |-> decodable,
   payload |-> payload, content |-> content]

NoUpstream == Upstream("none", NoExc, 0, FALSE, NoPayload, <<>>)

TransportFailure(type, text) == Upstream("error", Exc(type, text, 0), 0, FALSE, NoPayload, <<>>)

JsonResponse(status, payload) == Upstream("response", NoExc, status, TRUE, payload, <<"json">>)

RawResponse(status, content) == Upstream("response", NoExc, status, FALSE, NoPayload, content)

----------------------------------------------------------------------------
(* fetch_emoji_images *)

\* full_keyword = f"{keyword} {config.EXTRA_KEYWORD}".strip()
FullKeyword(keyword, cfg) == Strip(keyword \o <<" ">> \o cfg.EXTRA_KEYWORD)

Request(sent, method, url, words, limit, page) ==
  [sent |-> sent, method |-> method, url |-> url, words |-> words,
   limit |-> limit, page |-> page]

NoRequest == Request(FALSE, "none", "", <<>>, 0, 0)

\* The request fetch_emoji_images posts: the quoted full keyword as words.
FetchRequest(keyword, limit, page, cfg) ==
  Request(TRUE, "POST", cfg.API_URL, Quote(FullKeyword(keyword, cfg)), limit, page)

\* response.raise_for_status(): httpx raises for every status outside 2xx.
RaisesForStatus(status) == ~(200 <= status /\ status < 300)

\* What a call of a function comes to: it returns value (a payload for
\* fetch_emoji_images) or raises exc; decoded tells whether response.json()
\* ran.
Fetched(raised, exc, data, decoded) ==
  [raised |-> raised, exc |-> exc, data |-> data, decoded |-> decoded]

\* str() of the error json() raises on a body that is no JSON.
JSONDecodeText == <<"Expecting value: line 1 column 1 (char 0)">>

\* fetch_emoji_images with the two statements after the request swapped:
\* response.json() before response.raise_for_status().
FetchEmojiImagesDecodeFirst(u) ==
  IF u.kind = "error"
    THEN Fetched(TRUE, u.exc, NoPayload, FALSE)
  ELSE IF ~u.decodable
    THEN Fetched(TRUE, Exc("JSONDecodeError", JSONDecodeText, 0), NoPayload, TRUE)
  ELSE IF RaisesForStatus(u.status)
    THEN Fetched(TRUE, Exc("HTTPStatusError", <<"status">>, u.status), NoPayload, TRUE)
  ELSE Fetched(FALSE, NoExc, u.payload, TRUE)

\* The code of fetch_emoji_images after the request: the exchange's error is
\* raised, then raise_for_status(), then response.json().
FetchEmojiImages(u) ==
  IF u.kind = "error"
    THEN Fetched(TRUE, u.exc, NoPayload, FALSE)
  ELSE IF RaisesForStatus(u.status)
    THEN Fetched(TRUE, Exc("HTTPStatusError", <<"status">>, u.status), NoPayload, FALSE)
  ELSE IF ~u.decodable
    THEN Fetched(TRUE, Exc("JSONDecodeError", JSONDecodeText, 0), NoPayload, TRUE)
  ELSE Fetched(FALSE, NoExc, u.payload, TRUE)

----------------------------------------------------------------------------
(* format_result *)

\* What format_result comes to: the text it returns or the exception it
\* raises; chosen tells whether random.choice returned an element.
Formatted(raised, exc, text, chosen) ==
  [raised |-> raised, exc |-> exc, text |-> text, chosen |-> chosen]

\* data[key] on the decoded payload: a TypeError when the payload is no
\* object, a KeyError when the key is absent.
Subscript(data, key) ==
  IF data.shape # "object"
    THEN Exc("TypeError", <<"indices must be integers or not subscriptable">>, 0)
  ELSE IF data[key] = Absent THEN KeyErrorOf(key)
  ELSE NoExc

\* data.get('msg', <unknown error>)
MsgOrDefault(data) == IF data.msg = Absent THEN <<"unknown error">> ELSE StrOf(data.msg)

\* f"API <returned error>: {data.get('msg', ...)}"   (API返回错误)
ApiErrorText(data) == <<"API returned error: ">> \o MsgOrDefault(data)

\* <no matching emoji found>   (没有找到匹配的表情包)
NoMatchText == <<"no matching emoji found">>

\* The f-string format_result returns:
\*   找到{count}个表情包，当前第{page}/{maxpage}页\n随机选择一个: {choice}
SuccessText(count, page, maxpage, choice) ==
  Concat(<< <<"found ">>, StrOf(count), <<" emoji, page ">>, StrOf(page), <<"/">>,
            StrOf(maxpage), <<"\nrandomly chose one: ">>, choice >>)

\* random.choice over a buffer the invocations share: the elements of v and
\* of every res an invocation has received so far.
RandomChoiceShared(v) ==
  LET pool == {v.items[i] : i \in 1..Len(v.items)}
                \cup UNION {{upstream[c].payload.res.items[i] :
                               i \in 1..Len(upstream[c].payload.res.items)} :
                             c \in DOMAIN upstream}
  IN {Formatted(FALSE, NoExc, <<x>>, TRUE) : x \in pool}

\* random.choice(v): every outcome it can have.  A list or a string gives one
\* of its elements; an object is subscripted with the drawn index, which is
\* none of its (string) keys; a number has no len().
RandomChoice(v) ==
  CASE v.t \in {"list", "str"} ->
         {Formatted(FALSE, NoExc, <<v.items[i]>>, TRUE) : i \in 1..Len(v.items)}
    [] v.t = "obj" ->
         {Formatted(TRUE, Exc("KeyError", DecStr(i - 1), 0), <<>>, FALSE) :
            i \in 1..Len(v.items)}
    [] OTHER ->
         {Formatted(TRUE, Exc("TypeError", <<"object has no len()">>, 0), <<>>, FALSE)}

Raising(exc) == Formatted(TRUE, exc, <<>>, FALSE)

\* format_result reading res before it tests code.
FormatResultResFirst(data) ==
  IF Subscript(data, "code") # NoExc THEN {Raising(Subscript(data, "code"))}
  ELSE IF Subscript(data, "res") # NoExc THEN {Raising(Subscript(data, "res"))}
  ELSE IF ~Truthy(data.res) THEN {Raising(Exc("ValueError", NoMatchText, 0))}
  ELSE IF ~EqualsSuccess(data.code)
    THEN {Raising(Exc("ValueError", ApiErrorText(data), 0))}
  ELSE {Raising(Subscript(data, "count"))}

\* format_result(data): every outcome it can have, statement by statement.
FormatResult(data) ==
  IF Subscript(data, "code") # NoExc THEN {Raising(Subscript(data, "code"))}
  ELSE IF ~EqualsSuccess(data.code)
    THEN {Raising(Exc("ValueError", ApiErrorText(data), 0))}
  ELSE IF Subscript(data, "res") # NoExc THEN {Raising(Subscript(data, "res"))}
  ELSE IF ~Truthy(data.res) THEN {Raising(Exc("ValueError", NoMatchText, 0))}
  ELSE IF Subscript(data, "count") # NoExc THEN {Raising(Subscript(data, "count"))}
  ELSE IF Subscript(data, "maxpage") # NoExc THEN {Raising(Subscript(data, "maxpage"))}
  ELSE IF Subscript(data, "page") # NoExc THEN {Raising(Subscript(data, "page"))}
  ELSE {IF c.raised THEN c
        ELSE Formatted(FALSE, NoExc,
                       SuccessText(data.count, data.page, data.maxpage, c.text), TRUE) :
          c \in RandomChoice(data.res)}

----------------------------------------------------------------------------
(* The try/except of the two sandbox methods *)

\* How a sandbox method ends: it returns text or raises exc with str() text;
\* at is the line of the return or raise statement.
Result(how, at, text, exc) == [how |-> how, at |-> at, text |-> text, exc |-> exc]

NoResult == Result("none", 0, <<>>, "none")

\* An except clause: the classes it names, whether its body returns or
\* raises ValueError, the line of that statement, the literal its f-string
\* starts with and what follows it: str(e) or e.response.status_code.
Handler(classes, how, at, prefix, detail) ==
  [classes |-> classes, how |-> how, at |-> at, prefix |-> prefix, detail |-> detail]

\* search_emoji without its last clause, except Exception.
SearchEmojiExceptNoCatchAll ==
  << Handler({"RequestError"}, "return", 136,
             <<"emoji search failed, cannot connect to service: ">>, "str"),
     Handler({"HTTPStatusError"}, "return", 139,
             <<"emoji search failed, service returned error: ">>, "status"),
     Handler({"KeyError", "ValueError"}, "return", 142,
             <<"emoji data parse failed: ">>, "str") >>

\* search_emoji with except Exception as its first clause.
SearchEmojiExceptCatchAllFirst ==
  << Handler({"Exception"}, "return", 145,
             <<"emoji search unknown error: ">>, "str") >>
       \o SearchEmojiExceptNoCatchAll

\* The except clauses of search_emoji, in order.
\*   136: 表情包搜索失败，无法连接到服务: {str(e)}
\*   139: 表情包搜索失败，服务返回错误: {e.response.status_code}
\*   142: 表情包数据解析失败: {str(e)}
\*   145: 表情包搜索发生未知错误: {str(e)}
SearchEmojiExcept ==
  << Handler({"RequestError"}, "return", 136,
             <<"emoji search failed, cannot connect to service: ">>, "str"),
     Handler({"HTTPStatusError"}, "return", 139,
             <<"emoji search failed, service returned error: ">>, "status"),
     Handler({"KeyError", "ValueError"}, "return", 142,
             <<"emoji data parse failed: ">>, "str"),
     Handler({"Exception"}, "return", 145,
             <<"emoji search unknown error: ">>, "str") >>

\* The except clauses of get_emoji_image, in order; each raises ValueError.
\*   171: 无法下载图片: {str(e)}
\*   174: 图片下载失败，HTTP状态码: {e.response.status_code}
\*   177: 图片下载发生未知错误: {str(e)}
GetEmojiImageExcept ==
  << Handler({"RequestError"}, "raise", 171, <<"cannot download image: ">>, "str"),
     Handler({"HTTPStatusError"}, "raise", 174,
             <<"image download failed, HTTP status code: ">>, "status"),
     Handler({"Exception"}, "raise", 177, <<"image download unknown error: ">>, "str") >>

Catches(h, e) == \E base \in h.classes : IsSubclass(e.type, base)

\* The try statement on exception e: the first clause that catches e runs;
\* with none, e leaves the method.
Except(handlers, e) ==
  LET idx == {i \in DOMAIN handlers : Catches(handlers[i], e)}
  IN IF idx = {} THEN Result("raise", 0, e.text, e.type)
     ELSE LET h == handlers[CHOOSE i \in idx : \A j \in idx : i <= j]
              text == h.prefix \o (IF h.detail = "status" THEN DecStr(e.status) ELSE e.text)
          IN Result(h.how, h.at, text, IF h.how = "raise" THEN "ValueError" ELSE "none")

\* What ran on the way: response.json(), format_result, random.choice.
Trace(decoded, formatted, chosen) ==
  [decoded |-> decoded, formatted |-> formatted, chosen |-> chosen]

NoTrace == Trace(FALSE, FALSE, FALSE)

Ended(res, tr) == [result |-> res, trace |-> tr]

\* search_emoji from the answer of the upstream on: every way it can end.
SearchEmojiEnds(u) ==
  LET f == FetchEmojiImages(u)
  IN IF f.raised
       THEN {Ended(Except(SearchEmojiExcept, f.exc), Trace(f.decoded, FALSE, FALSE))}
       ELSE {Ended(IF r.raised THEN Except(SearchEmojiExcept, r.exc)
                   ELSE Result("return", 133, r.text, "none"),
                   Trace(f.decoded, TRUE, r.chosen)) : r \in FormatResult(f.data)}

\* get_emoji_image from the answer of the image host on.
GetEmojiImageEnd(u) ==
  IF u.kind = "error" THEN Except(GetEmojiImageExcept, u.exc)
  ELSE IF RaisesForStatus(u.status)
    THEN Except(GetEmojiImageExcept, Exc("HTTPStatusError", <<"status">>, u.status))
  ELSE Result("return", 168, u.content, "none")

----------------------------------------------------------------------------
(* Inputs: the keywords and URLs the agent passes, the answers of the       *)
(* upstream service and of the image host.                                  *)

ListsUpTo(S, n) == UNION {[1..k -> S] : k \in 0..n}

\* A keyword longer than 100 characters.
LongKeyword == [i \in 1..101 |-> "a"]

Keywords == ListsUpTo({" ", "a"}, MaxKeywordLen) \cup {LongKeyword}

ImageURLs == {"a.jpg", "b.jpg"}

TransportFailures ==
  {TransportFailure("ConnectError", <<"All connection attempts failed">>),
   TransportFailure("ReadTimeout", <<"The read operation timed out">>)}

CodeValues == {Absent, JNum(SuccessCode), JNum(400), JStr(<<"2", "0", "0">>)}

MsgValues == {Absent, JStr(<<"bad key">>)}

ResValues ==
  {Absent, JNull, JNum(0), JNum(7), JStr(<<"a", "b">>), JObj(<<>>), JObj(<<"k">>)}
    \cup {JList(s) : s \in ListsUpTo(ImageURLs, MaxRes)}

Payloads ==
  {NonObject("array"), NonObject("string"), NonObject("number")}
    \cup {Payload("object", code, msg, res, count, maxpage, page) :
            code \in CodeValues, msg \in MsgValues, res \in ResValues,
            count \in {Absent, JNum(3)}, maxpage \in {Absent, JNum(1)},
            page \in {Absent, JNum(1)}}

\* The answer of the spec's scenario.
OkPayload ==
  Payload("object", JNum(SuccessCode), JStr(<<"ok">>), JList(<<"a.jpg", "b.jpg">>),
          JNum(3), JNum(1), JNum(1))

SearchUpstreams ==
  TransportFailures
    \cup {RawResponse(s, <<"<html>">>) : s \in {200, 204, 301, 404, 500}}
    \cup {JsonResponse(s, OkPayload) : s \in {301, 404, 500}}
    \cup {JsonResponse(200, p) : p \in Payloads}

ImageUpstreams ==
  TransportFailures
    \cup {RawResponse(s, <<"image bytes">>) : s \in {200, 301, 404, 500}}

\* The answers drawn when several invocations run together.
ConcKeywords == {<<"a">>, <<"b">>}

ConcUpstreams ==
  {TransportFailure("ConnectError", <<"All connection attempts failed">>),
   RawResponse(404, <<"<html>">>),
   JsonResponse(200, Payload("object", JNum(400), JStr(<<"bad key">>), JList(<<>>),
                             Absent, Absent, Absent))}
    \cup {JsonResponse(200, Payload("object", JNum(SuccessCode), JStr(<<"ok">>), JList(s),
                                    JNum(3), JNum(1), JNum(1))) :
            s \in ListsUpTo(ImageURLs, MaxRes)}

----------------------------------------------------------------------------
(* The state machine.  An invocation c of a sandbox method runs to its      *)
(* await (the HTTP exchange) in one step and from the answer to its end in  *)
(* another: the code between two awaits runs without interleaving.          *)

InitCalls(calls) ==
  /\ config \in Configs
  /\ pc = [c \in calls |-> "idle"]
  /\ op = [c \in calls |-> "none"]
  /\ arg = [c \in calls |-> <<>>]
  /\ request = [c \in calls |-> NoRequest]
  /\ upstream = [c \in calls |-> NoUpstream]
  /\ trace = [c \in calls |-> NoTrace]
  /\ result = [c \in calls |-> NoResult]

\* search_emoji(_ctx, keyword) up to `await client.post(...)`.
SearchEmoji(c, keyword) ==
  /\ pc[c] = "idle"
  /\ pc' = [pc EXCEPT ![c] = "awaiting"]
  /\ op' = [op EXCEPT ![c] = "search_emoji"]
  /\ arg' = [arg EXCEPT ![c] = keyword]
  /\ request' = [request EXCEPT ![c] = FetchRequest(keyword, 1, 1, config)]
  /\ UNCHANGED <<config, upstream, trace, result>>

\* search_emoji from the answer u on, to its return.
SearchEmojiResume(c, u) ==
  /\ pc[c] = "awaiting"
  /\ op[c] = "search_emoji"
  /\ \E e \in SearchEmojiEnds(u) :
       /\ result' = [result EXCEPT ![c] = e.result]
       /\ trace' = [trace EXCEPT ![c] = e.trace]
  /\ upstream' = [upstream EXCEPT ![c] = u]
  /\ pc' = [pc EXCEPT ![c] = "done"]
  /\ UNCHANGED <<config, op, arg, request>>

\* get_emoji_image(_ctx, image_url) up to `await client.get(image_url)`.
GetEmojiImage(c, image_url) ==
  /\ pc[c] = "idle"
  /\ pc' = [pc EXCEPT ![c] = "awaiting"]
  /\ op' = [op EXCEPT ![c] = "get_emoji_image"]
  /\ arg' = [arg EXCEPT ![c] = <<image_url>>]
  /\ request' = [request EXCEPT ![c] = Request(TRUE, "GET", image_url, <<>>, 0, 0)]
  /\ UNCHANGED <<config, upstream, trace, result>>

\* get_emoji_image from the answer u on, to its return or raise.
GetEmojiImageResume(c, u) ==
  /\ pc[c] = "awaiting"
  /\ op[c] = "get_emoji_image"
  /\ result' = [result EXCEPT ![c] = GetEmojiImageEnd(u)]
  /\ upstream' = [upstream EXCEPT ![c] = u]
  /\ pc' = [pc EXCEPT ![c] = "done"]
  /\ UNCHANGED <<config, op, arg, request, trace>>

\* One invocation, against everything the upstream can answer.
Init == InitCalls({1})

Next ==
  \/ \E k \in Keywords : SearchEmoji(1, k)
  \/ \E u \in SearchUpstreams : SearchEmojiResume(1, u)
  \/ \E url \in ImageURLs : GetEmojiImage(1, url)
  \/ \E u \in ImageUpstreams : GetEmojiImageResume(1, u)

Spec == Init /\ [][Next]_vars

\* NumCalls invocations of search_emoji in flight together.
InitConc == InitCalls(1..NumCalls)

NextConc ==
  \/ \E c \in DOMAIN pc, k \in ConcKeywords : SearchEmoji(c, k)
  \/ \E c \in DOMAIN pc, u \in ConcUpstreams : SearchEmojiResume(c, u)

SpecConc == InitConc /\ [][NextConc]_vars

----------------------------------------------------------------------------
(* The claims *)

\* Invocation c of method m has ended.
Done(c, m) == pc[c] = "done" /\ op[c] = m

\* The upstream answered invocation c with a 2xx response whose body decodes.
Decoded2xx(c) ==
  /\ upstream[c].kind = "response"
  /\ upstream[c].status \in 200..299
  /\ upstream[c].decodable

\* C1: search_emoji always ends by returning a string, whatever the keyword
\* and whatever the upstream does; no exception leaves it.
C1_SearchAlwaysReturns ==
  \A c \in DOMAIN pc :
    Done(c, "search_emoji") => result[c].how = "return" /\ result[c].text # <<>>

\* C1 witness: the upstream answered with a JSON array, the TypeError of
\* data["code"] reached the last except clause, and a string was returned.
C1_Witness ==
  \E c \in DOMAIN pc :
    /\ Done(c, "search_emoji")
    /\ upstream[c] = JsonResponse(200, NonObject("array"))
    /\ result[c].how = "return"
    /\ result[c].at = 145

\* C2 (as claimed): with code = 200 and res = [] the result is not produced
\* by an except clause: nothing was raised inside the pipeline, and the
\* result does not come from the clause that reports malformed and
\* upstream-error payloads.
C2_NoMatchesNotAFailure ==
  \A c \in DOMAIN pc :
    ( /\ Done(c, "search_emoji")
      /\ Decoded2xx(c)
      /\ upstream[c].payload.shape = "object"
      /\ upstream[c].payload.code = JNum(200)
      /\ upstream[c].payload.res = JList(<<>>) )
    => result[c].at \notin {136, 139, 142, 145}

\* C3: with a code other than 200 the result is the upstream-error report
\* and carries msg unchanged (the default text when msg is absent), whatever
\* res is; no element of res is chosen.
C3_UpstreamErrorCarriesMsg ==
  \A c \in DOMAIN pc :
    ( /\ Done(c, "search_emoji")
      /\ Decoded2xx(c)
      /\ upstream[c].payload.shape = "object"
      /\ upstream[c].payload.code # Absent
      /\ upstream[c].payload.code # JNum(200) )
    => /\ result[c].how = "return"
       /\ result[c].text =
            <<"emoji data parse failed: ", "API returned error: ">>
              \o (IF upstream[c].payload.msg = Absent THEN <<"unknown error">>
                  ELSE upstream[c].payload.msg.items)
       /\ ~trace[c].chosen

\* C3 witness: code 400 with a msg and a non-empty res; the msg is reported.
C3_Witness ==
  \E c \in DOMAIN pc :
    /\ Done(c, "search_emoji")
    /\ Decoded2xx(c)
    /\ upstream[c].payload.code = JNum(400)
    /\ upstream[c].payload.msg = JStr(<<"bad key">>)
    /\ upstream[c].payload.res = JList(<<"a.jpg">>)
    /\ result[c].text = <<"emoji data parse failed: ", "API returned error: ", "bad key">>

\* C4 (as claimed): a keyword whose trimmed length is in 1..100 leads to a
\* request; an empty, whitespace-only or over-long keyword leads to none.
C4_KeywordValidated ==
  \A c \in DOMAIN pc :
    op[c] = "search_emoji" =>
      IF Len(Strip(arg[c])) >= 1 /\ Len(arg[c]) <= 100
        THEN request[c].sent
        ELSE ~request[c].sent

\* C5: a status outside 2xx gives the HTTP-status report with that status,
\* and response.json() runs only on a 2xx response.
C5_StatusBeforeDecode ==
  \A c \in DOMAIN pc :
    Done(c, "search_emoji") =>
      /\ ( upstream[c].kind = "response" /\ upstream[c].status \notin 200..299
           => /\ result[c] = Result("return", 139,
                                    <<"emoji search failed, service returned error: ">>
                                      \o DecStr(upstream[c].status), "none")
              /\ ~trace[c].decoded )
      /\ ( trace[c].decoded
           => upstream[c].kind = "response" /\ upstream[c].status \in 200..299 )

\* C5 witness: a 404 whose body is valid JSON; the status is reported.
C5_Witness ==
  \E c \in DOMAIN pc :
    /\ Done(c, "search_emoji")
    /\ upstream[c] = JsonResponse(404, OkPayload)
    /\ result[c].text = <<"emoji search failed, service returned error: ", "4", "0", "4">>

\* C6: a timeout or a connection failure gives the cannot-connect report and
\* nothing else: no URL in the text, nothing decoded, formatted or chosen,
\* nothing raised.
C6_TransportOnly ==
  \A c \in DOMAIN pc :
    ( Done(c, "search_emoji") /\ upstream[c].kind = "error" )
    => /\ result[c] = Result("return", 136,
                             <<"emoji search failed, cannot connect to service: ">>
                               \o upstream[c].exc.text, "none")
       /\ \A i \in DOMAIN result[c].text : result[c].text[i] \notin ImageURLs
       /\ trace[c] = NoTrace

\* C6 witness: the search call timed out and the report was returned.
C6_Witness ==
  \E c \in DOMAIN pc :
    /\ Done(c, "search_emoji")
    /\ upstream[c].kind = "error"
    /\ upstream[c].exc.type = "ReadTimeout"
    /\ result[c].at = 136


\* C7 (as claimed): with code = 200, a non-empty res list and page, maxpage
\* or count absent, the call still succeeds: the absent fields read 1, 1 and
\* 0 and an element of res is returned.
C7_MissingPaginationDefaults ==
  \A c \in DOMAIN pc :
    ( /\ Done(c, "search_emoji")
      /\ Decoded2xx(c)
      /\ upstream[c].payload.shape = "object"
      /\ upstream[c].payload.code = JNum(200)
      /\ upstream[c].payload.res.t = "list"
      /\ upstream[c].payload.res.items # <<>>
      /\ Absent \in {upstream[c].payload.count, upstream[c].payload.maxpage,
                     upstream[c].payload.page} )
    => LET p == upstream[c].payload
           count == IF p.count = Absent THEN JNum(0) ELSE p.count
           maxpage == IF p.maxpage = Absent THEN JNum(1) ELSE p.maxpage
           page == IF p.page = Absent THEN JNum(1) ELSE p.page
       IN /\ result[c].how = "return"
          /\ \E i \in DOMAIN p.res.items :
               result[c].text = SuccessText(count, page, maxpage, <<p.res.items[i]>>)

\* C8 (as claimed): a failed byte fetch (timeout, connection failure, status
\* outside 2xx) ends get_emoji_image by returning a value, not by raising.
C8_ImageFailureIsAValue ==
  \A c \in DOMAIN pc :
    ( /\ Done(c, "get_emoji_image")
      /\ \/ upstream[c].kind = "error"
         \/ upstream[c].kind = "response" /\ upstream[c].status \notin 200..299 )
    => result[c].how = "return"

\* C9 (as claimed): a decoded payload that is no object, or lacks code or
\* res, or whose res is no list, is reported by the clause for malformed
\* data: never by the catch-all clause and never as a success.
C9_MalformedIsMalformed ==
  \A c \in DOMAIN pc :
    ( /\ Done(c, "search_emoji")
      /\ Decoded2xx(c)
      /\ \/ upstream[c].payload.shape # "object"
         \/ upstream[c].payload.code = Absent
         \/ upstream[c].payload.res.t # "list" )
    => result[c].at = 142

\* C10: with invocations in flight together, a success of invocation c
\* holds exactly one URL, an element of the res of the answer to c, which
\* had code = 200 and a non-empty res; and the request of c carries the
\* keyword of c.
C10_ResultFromOwnResponse ==
  \A c \in DOMAIN pc :
    /\ request[c].sent => Head(request[c].words) = Head(arg[c])
    /\ ( Done(c, "search_emoji") /\ result[c].at = 133 )
       => /\ Decoded2xx(c)
          /\ upstream[c].payload.code = JNum(200)
          /\ upstream[c].payload.res.items # <<>>
          /\ Cardinality({i \in DOMAIN result[c].text :
                            result[c].text[i] \in ImageURLs}) = 1
          /\ \E i \in DOMAIN upstream[c].payload.res.items :
               result[c].text[Len(result[c].text)] = upstream[c].payload.res.items[i]

\* C10 witness: two invocations were awaiting their answers together; the
\* answers had different res lists and each invocation returned the URL of
\* its own.
C10_Witness ==
  \E c, d \in DOMAIN pc :
    /\ c # d
    /\ Done(c, "search_emoji") /\ result[c].at = 133
    /\ Done(d, "search_emoji") /\ result[d].at = 133
    /\ arg[c] # arg[d]
    /\ upstream[c].payload.res = JList(<<"a.jpg">>)
    /\ upstream[d].payload.res = JList(<<"b.jpg">>)
    /\ result[c].text[Len(result[c].text)] = "a.jpg"
    /\ result[d].text[Len(result[d].text)] = "b.jpg"

====
